---- MODULE Spec2Model ----
(***************************************************************************)
(* Model of src/mass_match_app.py: the modifier parsing loop, the          *)
(* "Run Matching Search" handler with its five strategies, the sorted      *)
(* presentation of its results with the captions naming the numeric tokens *)
(* of each description, and get_global_name.                               *)
(*                                                                         *)
(* Numbers.  A Python float is modelled by an integer counting units of    *)
(* 10^-Decimals, so 2.5 is 2500 when Decimals is 3.  Arithmetic on these   *)
(* values is exact; inputs are kept on this grid.  Text is modelled by     *)
(* TLA+ strings, which TLC treats as sequences of characters.              *)
(***************************************************************************)
EXTENDS Integers, Sequences, FiniteSets, TLC

VARIABLES
    main_list,          \* selected_data["main"]: sequence of floats
    list2_raw,          \* selected_data["list2_raw"]: sequence of strings / floats
    list2_add,          \* parsed addition values
    list2_sub,          \* parsed subtraction values
    input_mode,         \* "Mass" or "m/z"
    target_mass_direct, \* the "Target mass" widget
    mz_value,           \* the "m/z" widget
    selected_charges,   \* sequence of the ticked charge states, ascending
    tolerance,          \* the "Tolerance" widget
    run_main_only, run_additions, run_subtractions, run_sub_add, run_list2_only,
    results,            \* the handler's result list, in production order
    shown,              \* the records in the order they are written out
    warnings,           \* the st.warning messages of the handler
    signed_mods,        \* the handler's signed modifier list ("Shorters-combos")
    captions,           \* per record written out, the st.caption lines under it
    GLOBAL_NAME_MAP,    \* sequence of <<key, name>> in dict order
    num,                \* argument of the last get_global_name call
    unique_matches,     \* its return value
    pc                  \* position in the script

vars == <<main_list, list2_raw, list2_add, list2_sub, input_mode,
          target_mass_direct, mz_value, selected_charges, tolerance,
          run_main_only, run_additions, run_subtractions, run_sub_add,
          run_list2_only, results, shown, warnings, signed_mods, captions,
          GLOBAL_NAME_MAP, num, unique_matches, pc>>

---------------------------------------------------------------------------
(* Bounds of the model. *)

Decimals == 3        \* fractional digits of the value grid
MaxRaw == 3          \* longest list2_raw of the normalizer specification
MaxMain == 2         \* longest main_list of the search specification
MaxMods == 2         \* longest list2_raw of the search specification
MaxNames == 2        \* entries of GLOBAL_NAME_MAP
MaxLong == 3         \* longest list2_raw of the combination specification

---------------------------------------------------------------------------
(* Numbers and text. *)

RECURSIVE Pow10(_)
Pow10(n) == IF n = 0 THEN 1 ELSE 10 * Pow10(n - 1)

\* 1.0 on the value grid
One == Pow10(Decimals)

Abs(x) == IF x < 0 THEN -x ELSE x

\* s[i] of a Python string, 1-based here
Ch(s, i) == Head(SubSeq(s, i, i))

Whitespace == {" "}
DigitChars == {"0", "1", "2", "3", "4", "5", "6", "7", "8", "9"}

StartsWith(s, c) == Len(s) > 0 /\ Ch(s, 1) = c

RECURSIVE LStrip(_, _)
LStrip(s, cs) ==
    IF Len(s) > 0 /\ Ch(s, 1) \in cs THEN LStrip(SubSeq(s, 2, Len(s)), cs) ELSE s

RECURSIVE RStrip(_, _)
RStrip(s, cs) ==
    IF Len(s) > 0 /\ Ch(s, Len(s)) \in cs
    THEN RStrip(SubSeq(s, 1, Len(s) - 1), cs)
    ELSE s

\* str.strip(chars)
Strip(s, cs) == RStrip(LStrip(s, cs), cs)

DigitVal(c) == CHOOSE d \in 0..9 : Ch("0123456789", d + 1) = c

RECURSIVE DigitsVal(_)
DigitsVal(s) ==
    IF Len(s) = 0 THEN 0
    ELSE 10 * DigitsVal(SubSeq(s, 1, Len(s) - 1)) + DigitVal(Ch(s, Len(s)))

RECURSIVE Zeros(_)
Zeros(n) == IF n = 0 THEN "" ELSE "0" \o Zeros(n - 1)

\* position of the first "." of s, or 0
RECURSIVE DotPos(_, _)
DotPos(s, i) ==
    IF i > Len(s) THEN 0 ELSE IF Ch(s, i) = "." THEN i ELSE DotPos(s, i + 1)

AllIn(s, cs) == \A i \in 1..Len(s) : Ch(s, i) \in cs

Failed == [ok |-> FALSE, val |-> 0]

\* An unsigned decimal numeral: digits, at most one ".", at least one digit.
\* Fractional digits beyond the grid are dropped.
ParseUnsigned(s) ==
    LET d == DotPos(s, 1)
        ip == IF d = 0 THEN s ELSE SubSeq(s, 1, d - 1)
        fp == IF d = 0 THEN "" ELSE SubSeq(s, d + 1, Len(s))
    IN  IF AllIn(ip, DigitChars) /\ AllIn(fp, DigitChars) /\ Len(ip) + Len(fp) > 0
        THEN [ok |-> TRUE,
              val |-> DigitsVal(ip) * One
                      + DigitsVal(SubSeq(fp \o Zeros(Decimals), 1, Decimals))]
        ELSE Failed

\* float(s) of a string over digits, ".", "+", "-", blanks, quotes and letters
\* that form no numeral: ok is FALSE where Python raises ValueError.
ParseFloat(s) ==
    LET t == Strip(s, Whitespace)
        neg == StartsWith(t, "-")
        body == IF StartsWith(t, "-") \/ StartsWith(t, "+")
                THEN SubSeq(t, 2, Len(t)) ELSE t
        u == ParseUnsigned(body)
    IN  IF u.ok THEN [ok |-> TRUE, val |-> IF neg THEN -u.val ELSE u.val]
        ELSE Failed

\* the fractional digits of repr(float): trailing zeros removed, one kept
RECURSIVE TrimZeros(_)
TrimZeros(s) ==
    IF Len(s) > 1 /\ Ch(s, Len(s)) = "0"
    THEN TrimZeros(SubSeq(s, 1, Len(s) - 1))
    ELSE s

\* the k decimal digits of n, zero padded on the left
RECURSIVE PadDigits(_, _)
PadDigits(n, k) ==
    IF k = 0 THEN "" ELSE PadDigits(n \div 10, k - 1) \o ToString(n % 10)

\* str(x) of a float x on the grid (fixed notation: Decimals <= 4)
FloatStr(x) ==
    (IF x < 0 THEN "-" ELSE "")
    \o ToString(Abs(x) \div One) \o "."
    \o TrimZeros(PadDigits(Abs(x) % One, Decimals))

\* An item of list2_raw, as json.loads gives it: a string or a float.
StrItem(s) == [kind |-> "str", s |-> s, f |-> 0]
FloatItem(x) == [kind |-> "float", s |-> "", f |-> x]

\* str(item)
Str(item) == IF item.kind = "float" THEN FloatStr(item.f) ELSE item.s

---------------------------------------------------------------------------
(* The modifier parsing loop. *)

\* s = str(item).strip().strip("'").strip('"')
CleanItem(item) == Strip(Strip(Strip(Str(item), Whitespace), {"'"}), {"\""})

\* ParseItem with the unsigned branch feeding list2_add only
ParseItemAddOnly(lists, item) ==
    LET s == CleanItem(item)
    IN  IF StartsWith(s, "+")
        THEN LET f == ParseFloat(SubSeq(s, 2, Len(s)))
             IN  IF f.ok THEN [lists EXCEPT !.add = Append(@, f.val)] ELSE lists
        ELSE IF StartsWith(s, "-")
        THEN LET f == ParseFloat(s)
             IN  IF f.ok THEN [lists EXCEPT !.sub = Append(@, Abs(f.val))] ELSE lists
        ELSE LET f == ParseFloat(s)
             IN  IF ~f.ok THEN lists
                 ELSE IF f.val >= 0
                 THEN [lists EXCEPT !.add = Append(@, f.val)]
                 ELSE [lists EXCEPT !.sub = Append(@, Abs(f.val))]

\* one pass of the loop body on lists [add, sub]
ParseItem(lists, item) ==
    LET s == CleanItem(item)
    IN  IF StartsWith(s, "+")
        THEN LET f == ParseFloat(SubSeq(s, 2, Len(s)))
             IN  IF f.ok THEN [lists EXCEPT !.add = Append(@, f.val)] ELSE lists
        ELSE IF StartsWith(s, "-")
        THEN LET f == ParseFloat(s)
             IN  IF f.ok THEN [lists EXCEPT !.sub = Append(@, Abs(f.val))] ELSE lists
        ELSE LET f == ParseFloat(s)
             IN  IF ~f.ok THEN lists
                 ELSE IF f.val >= 0
                 THEN [add |-> Append(lists.add, f.val),
                       sub |-> Append(lists.sub, f.val)]
                 ELSE [lists EXCEPT !.sub = Append(@, Abs(f.val))]

\* whether float() raises ValueError on the text the loop body parses
Raises(item) ==
    LET s == CleanItem(item)
    IN  ~ParseFloat(IF StartsWith(s, "+") THEN SubSeq(s, 2, Len(s)) ELSE s).ok

\* ParseFrom with the try/except around the whole loop: the first
\* ValueError ends it
RECURSIVE ParseFromAbort(_, _, _)
ParseFromAbort(lists, raw, i) ==
    IF i > Len(raw) \/ Raises(raw[i]) THEN lists
    ELSE ParseFromAbort(ParseItem(lists, raw[i]), raw, i + 1)

RECURSIVE ParseFrom(_, _, _)
ParseFrom(lists, raw, i) ==
    IF i > Len(raw) THEN lists ELSE ParseFrom(ParseItem(lists, raw[i]), raw, i + 1)

\* list2_add, list2_sub after the loop over list2_raw
ParseModifiers(raw) == ParseFrom([add |-> <<>>, sub |-> <<>>], raw, 1)

---------------------------------------------------------------------------
(* Formatting of numbers in descriptions. *)

\* f"{x:.5f}" of a float on the grid
Fixed5(x) ==
    (IF x < 0 THEN "-" ELSE "")
    \o ToString(Abs(x) \div One) \o "."
    \o PadDigits(Abs(x) % One, Decimals) \o Zeros(5 - Decimals)

\* f"{x:+.5f}"
SignedFixed5(x) == (IF x < 0 THEN "" ELSE "+") \o Fixed5(x)

RECURSIVE JoinFloats(_)
JoinFloats(combo) ==
    IF Len(combo) = 1 THEN FloatStr(combo[1])
    ELSE FloatStr(combo[1]) \o ", " \o JoinFloats(Tail(combo))

\* str(combo) of a non-empty tuple of floats
TupleStr(combo) ==
    "(" \o JoinFloats(combo) \o (IF Len(combo) = 1 THEN ",)" ELSE ")")

---------------------------------------------------------------------------
(* Helpers of the search. *)

RECURSIVE Sum(_)
Sum(seq) == IF Len(seq) = 0 THEN 0 ELSE Head(seq) + Sum(Tail(seq))

\* ss[i] \o ... \o ss[n]: what nested loops produce, in order
RECURSIVE FlattenFrom(_, _, _)
FlattenFrom(ss, i, n) == IF i > n THEN <<>> ELSE ss[i] \o FlattenFrom(ss, i + 1, n)

\* the concatenation of the n sequences ss[1], ..., ss[n]
Flatten(n, ss) == FlattenFrom(ss, 1, n)

\* The index tuples of itertools.combinations (rep FALSE) or
\* itertools.combinations_with_replacement (rep TRUE) of size r over
\* positions lo..n, in the order itertools emits them.
RECURSIVE IndexCombos(_, _, _, _)
IndexCombos(n, r, lo, rep) ==
    IF r = 0 THEN << <<>> >>
    ELSE Flatten(n - lo + 1, [k \in 1..(n - lo + 1) |->
            LET i == lo + k - 1
                rest == IndexCombos(n, r - 1, IF rep THEN i ELSE i + 1, rep)
            IN  [j \in 1..Len(rest) |-> <<i>> \o rest[j]]])

Pick(list, idx) == [k \in 1..Len(idx) |-> list[idx[k]]]

\* the combos of size r of list, as tuples of values
Combos(list, r, rep) ==
    LET ic == IndexCombos(Len(list), r, 1, rep)
    IN  [j \in 1..Len(ic) |-> Pick(list, ic[j])]

\* One call of add_result as the loops make it: the description, the value
\* and len(steps).
Candidate(desc, val, nsteps) == [desc |-> desc, val |-> val, steps |-> nsteps]

\* within_tolerance with a strict comparison
within_tolerance_strict(value, target_mass, tol) == Abs(value - target_mass) < tol

within_tolerance(value, target_mass, tol) == Abs(value - target_mass) <= tol

\* add_result: prefix "" stands for None
add_result(res, c, target_mass, prefix, tol) ==
    IF within_tolerance(c.val, target_mass, tol)
    THEN LET err == Abs(c.val - target_mass)
             full_desc == IF prefix = "" THEN c.desc
                          ELSE "[" \o prefix \o "] " \o c.desc
         IN  Append(res, [steps |-> c.steps, err |-> err,
                          full_desc |-> full_desc, val |-> c.val])
    ELSE res

\* what add_result appends for cands[lo], ..., cands[hi], in this order
RECURSIVE AddRange(_, _, _, _, _, _)
AddRange(cands, lo, hi, target_mass, prefix, tol) ==
    IF lo > hi THEN <<>>
    ELSE IF lo = hi THEN add_result(<<>>, cands[lo], target_mass, prefix, tol)
    ELSE LET mid == (lo + hi) \div 2
         IN  AddRange(cands, lo, mid, target_mass, prefix, tol)
             \o AddRange(cands, mid + 1, hi, target_mass, prefix, tol)

\* res after the add_result calls of one target, in the order of the loops
AddAll(res, cands, target_mass, prefix, tol) ==
    res \o AddRange(cands, 1, Len(cands), target_mass, prefix, tol)

\* the dataset name shown in the "only" description
selected_name == "peptide"

---------------------------------------------------------------------------
(* The first four strategies. *)

MainOnlyCands(total_main) ==
    << Candidate(selected_name \o " only", total_main, 0) >>

AddCombosOf(total_main, adds, r) ==
    LET cs == Combos(adds, r, TRUE)
    IN  [j \in 1..Len(cs) |->
            Candidate("+" \o TupleStr(cs[j]), total_main + Sum(cs[j]), Len(cs[j]))]

AdditionCands(total_main, adds) ==
    Flatten(3, [r \in 1..3 |-> AddCombosOf(total_main, adds, r)])

\* SubCombosOf drawing with replacement, as the "+" branch does
SubCombosOfRepeating(total_main, subs, r) ==
    LET cs == Combos(subs, r, TRUE)
    IN  [j \in 1..Len(cs) |->
            Candidate("-" \o TupleStr(cs[j]), total_main - Sum(cs[j]), Len(cs[j]))]

SubCombosOf(total_main, subs, r) ==
    LET cs == Combos(subs, r, FALSE)
    IN  [j \in 1..Len(cs) |->
            Candidate("-" \o TupleStr(cs[j]), total_main - Sum(cs[j]), Len(cs[j]))]

SubtractionCands(total_main, subs) ==
    Flatten(3, [r \in 1..3 |-> SubCombosOf(total_main, subs, r)])

\* SubAddPair without the "if sub == add: continue"
SubAddPairNoSkip(total_main, sub, add) ==
    << Candidate("-(" \o FloatStr(sub) \o ",) +(" \o FloatStr(add) \o ",)",
                 total_main - sub + add, 2) >>

\* the body of the "- and +" loops for one pair: empty when sub == add
SubAddPair(total_main, sub, add) ==
    IF sub = add THEN <<>>
    ELSE << Candidate("-(" \o FloatStr(sub) \o ",) +(" \o FloatStr(add) \o ",)",
                      total_main - sub + add, 2) >>

SubAddCands(total_main, subs, adds) ==
    Flatten(Len(subs), [i \in 1..Len(subs) |->
        Flatten(Len(adds), [j \in 1..Len(adds) |-> SubAddPair(total_main, subs[i], adds[j])])])

---------------------------------------------------------------------------
(* The "Shorters-combos" strategy: fragments of main_list, signed modifiers *)
(* and one substitution by a neighbour.                                     *)

\* round(x, 6): the grid is no finer than 6 decimals, nothing to round
Round6(x) == x

SeqRange(seq) == {seq[i] : i \in 1..Len(seq)}

\* one pass of either signed_mods loop: st is [mods, seen], sign "+" or "-"
SignedModStep(st, v, sign, main_masses_set) ==
    LET mag == Round6(Abs(v))
        key == <<sign, mag>>
    IN  IF mag \in main_masses_set THEN st
        ELSE IF key \in st.seen THEN st
        ELSE [mods |-> Append(st.mods, IF sign = "+" THEN v ELSE -v),
              seen |-> st.seen \cup {key}]

RECURSIVE SignedModLoop(_, _, _, _)
SignedModLoop(st, values, sign, main_masses_set) ==
    IF Len(values) = 0 THEN st
    ELSE SignedModLoop(SignedModStep(st, Head(values), sign, main_masses_set),
                       Tail(values), sign, main_masses_set)

\* signed_mods: the "+" loop over list2_add, then the "-" loop over list2_sub
SignedMods(mains, adds, subs) ==
    LET mset == {Round6(x) : x \in SeqRange(mains)}
        a == SignedModLoop([mods |-> <<>>, seen |-> {}], adds, "+", mset)
    IN  SignedModLoop(a, subs, "-", mset).mods

\* prefix_sums, 1-based here: PrefixSums(mains)[i + 1] is prefix_sums[i]
RECURSIVE PrefixSums(_)
PrefixSums(mains) ==
    IF Len(mains) = 0 THEN <<0>>
    ELSE LET p == PrefixSums(SubSeq(mains, 1, Len(mains) - 1))
         IN  Append(p, p[Len(p)] + mains[Len(mains)])

\* "one modification": base + m for every signed modifier
OneModCands(base_desc, base, nsteps, mods) ==
    [i \in 1..Len(mods) |->
        Candidate(base_desc \o " " \o SignedFixed5(mods[i]), base + mods[i],
                  nsteps + 1)]

\* f" {m:+.5f}" of every signed modifier
ModTexts(mods) == <<>> \o [i \in 1..Len(mods) |-> " " \o SignedFixed5(mods[i])]

\* "two modifications": base + m1 + m2 for m2 in signed_mods[i_m:]
TwoModCands(base_desc, base, nsteps, mods) ==
    LET texts == ModTexts(mods)
    IN  Flatten(Len(mods), [i \in 1..Len(mods) |->
            [k \in 1..(Len(mods) - i + 1) |->
                LET m1 == mods[i]
                    m2 == mods[i + k - 1]
                IN  Candidate(base_desc \o texts[i] \o texts[i + k - 1],
                              base + (m1 + m2), nsteps + 2)]])

\* neighbour_indices of position k (0-based, as in the code)
NeighbourIndices(k, n) ==
    (IF k - 1 >= 0 THEN <<k - 1>> ELSE <<>>) \o (IF k + 1 < n THEN <<k + 1>> ELSE <<>>)

\* The substitution of main_list[k] by main_list[neigh_idx] in fragment
\* start..end: nothing when the two masses are closer than 1e-9 (on the grid:
\* equal), else the substitution alone, with one modifier and with two.
SubstCands(mains, label, frag_sum, start, k, neigh_idx, mods) ==
    LET old_mass == mains[k + 1]
        subst_mass == mains[neigh_idx + 1]
        pos_in_frag == k - start + 1
        sub_base == frag_sum - old_mass + subst_mass
        base_desc == "frag " \o label \o " subst pos" \o ToString(pos_in_frag)
                     \o " " \o Fixed5(old_mass) \o "->" \o Fixed5(subst_mass)
    IN  IF Abs(subst_mass - old_mass) = 0 THEN <<>>
        ELSE << Candidate(base_desc, sub_base, 1) >>
             \o OneModCands(base_desc, sub_base, 1, mods)
             \o TwoModCands(base_desc, sub_base, 1, mods)

\* frag_label with the end written as the position behind the fragment
frag_label_end_behind(start, end) == ToString(start + 1) \o "-" \o ToString(end + 1)

\* f"{start + 1}-{end}" of the fragment main_list[start:end]
frag_label(start, end) == ToString(start + 1) \o "-" \o ToString(end)

\* the candidates of one fragment, start and end 0-based, end exclusive
FragmentCands(mains, start, end, mods) ==
    LET n == Len(mains)
        ps == PrefixSums(mains)
        frag_sum == ps[end + 1] - ps[start + 1]
        frag_desc == "frag " \o frag_label(start, end)
    IN  << Candidate(frag_desc, frag_sum, 0) >>
        \o OneModCands(frag_desc, frag_sum, 0, mods)
        \o TwoModCands(frag_desc, frag_sum, 0, mods)
        \o Flatten(end - start, [kk \in 1..(end - start) |->
              LET k == start + kk - 1
                  ni == NeighbourIndices(k, n)
              IN  Flatten(Len(ni), [q \in 1..Len(ni) |->
                      SubstCands(mains, frag_label(start, end), frag_sum, start, k,
                                 ni[q], mods)])])

ShortersCands(mains, adds, subs) ==
    LET n == Len(mains)
        mods == SignedMods(mains, adds, subs)
    IN  Flatten(n, [s \in 1..n |->
            Flatten(n - s + 1, [e \in 1..(n - s + 1) |->
                FragmentCands(mains, s - 1, s + e - 1, mods)])])

---------------------------------------------------------------------------
(* The "Run Matching Search" handler. *)

PrefixStr(mz, z) == "m/z=" \o Fixed5(mz) \o ", z=" \o ToString(z)

\* ChargeTarget without the "- z"
ChargeTargetNoLoss(mz, z) == mz * z

\* the neutral mass searched for charge state z
ChargeTarget(mz, z) == mz * z - z * One

\* target_pairs: (target_mass, prefix) with prefix "" for None.  The number
\* inputs always hold a float, so the "is None" branches are never taken.
TargetPairs(mode, direct, mz, charges) ==
    IF mode = "Mass" THEN << [target |-> direct, prefix |-> ""] >>
    ELSE [i \in 1..Len(charges) |->
            [target |-> ChargeTarget(mz, charges[i]),
             prefix |-> PrefixStr(mz, charges[i])]]

\* every add_result call of one pass of the per-target loop, in order
PassCands(mains, adds, subs, flags) ==
    LET total_main == Sum(mains)
    IN  (IF flags.main_only THEN MainOnlyCands(total_main) ELSE <<>>)
        \o (IF flags.additions THEN AdditionCands(total_main, adds) ELSE <<>>)
        \o (IF flags.subtractions THEN SubtractionCands(total_main, subs) ELSE <<>>)
        \o (IF flags.sub_add THEN SubAddCands(total_main, subs, adds) ELSE <<>>)
        \o (IF flags.list2_only THEN ShortersCands(mains, adds, subs) ELSE <<>>)

RECURSIVE SearchFrom(_, _, _, _, _)
SearchFrom(res, pairs, i, cands, tol) ==
    IF i > Len(pairs) THEN res
    ELSE SearchFrom(AddAll(res, cands, pairs[i].target, pairs[i].prefix, tol),
                    pairs, i + 1, cands, tol)

\* results after the loop over target_pairs
Search(mains, adds, subs, pairs, tol, flags) ==
    SearchFrom(<<>>, pairs, 1, PassCands(mains, adds, subs, flags), tol)

\* KeyLE for key=lambda x: x[0]
KeyLEStepsOnly(a, b) == a.steps <= b.steps

\* the sort key of sorted(results, key=lambda x: (x[0], x[1]))
KeyLE(a, b) == a.steps < b.steps \/ (a.steps = b.steps /\ a.err <= b.err)

\* r placed behind every record whose key is not larger
InsertByKey(sorted, r) ==
    LET before == SelectSeq(sorted, LAMBDA x : KeyLE(x, r))
        after == SelectSeq(sorted, LAMBDA x : ~KeyLE(x, r))
    IN  before \o <<r>> \o after

\* sorted(results, key=...): a stable sort
RECURSIVE SortedByKey(_)
SortedByKey(res) ==
    IF Len(res) = 0 THEN <<>>
    ELSE InsertByKey(SortedByKey(SubSeq(res, 1, Len(res) - 1)), res[Len(res)])

NoChargeWarning == "Please select at least one charge state."
NoMatchWarning == "No matches found."

Flags(a, b, c, d, e) ==
    [main_only |-> a, additions |-> b, subtractions |-> c, sub_add |-> d,
     list2_only |-> e]

\* ascending sequence of a set of integers
RECURSIVE SortedSeq(_)
SortedSeq(S) ==
    IF S = {} THEN <<>>
    ELSE LET m == CHOOSE x \in S : \A y \in S : x <= y
         IN  <<m>> \o SortedSeq(S \ {m})

---------------------------------------------------------------------------
(* get_global_name. *)

\* float(num): num is a float already, or text
ToFloat(item) ==
    IF item.kind = "float" THEN [ok |-> TRUE, val |-> item.f] ELSE ParseFloat(item.s)

\* k_str.startswith(('+', '-'))
IsSignedKey(k_str) == StartsWith(k_str, "+") \/ StartsWith(k_str, "-")

\* what one (k, v) of GLOBAL_NAME_MAP appends to matches: <<>> or one name
KeyMatches(k, v, num_f, tol_val) ==
    LET k_str == Strip(k, Whitespace)
        kf == ParseFloat(k_str)
    IN  IF ~kf.ok THEN <<>>
        ELSE IF IsSignedKey(k_str)
        THEN IF Abs(kf.val - num_f) <= tol_val THEN <<v>> ELSE <<>>
        ELSE IF Abs(Abs(kf.val) - Abs(num_f)) <= tol_val
             THEN IF num_f < 0 THEN <<"-" \o v>> ELSE <<"+" \o v>>
             ELSE <<>>

\* "Remove duplicates while preserving order"
RECURSIVE Unique(_, _)
Unique(matches, out) ==
    IF Len(matches) = 0 THEN out
    ELSE Unique(Tail(matches),
                IF Head(matches) \in SeqRange(out) THEN out
                ELSE Append(out, Head(matches)))

\* get_global_name returning at the first match
get_global_name_first(n, map, tol) ==
    LET f == ToFloat(n)
        all == IF ~f.ok THEN <<>>
               ELSE Flatten(Len(map), [i \in 1..Len(map) |->
                        KeyMatches(map[i][1], map[i][2], f.val, tol)])
    IN  SubSeq(all, 1, IF Len(all) > 0 THEN 1 ELSE 0)

get_global_name(n, map, tol) ==
    LET f == ToFloat(n)
    IN  IF ~f.ok THEN <<>>
        ELSE Unique(Flatten(Len(map), [i \in 1..Len(map) |->
                        KeyMatches(map[i][1], map[i][2], f.val, tol)]), <<>>)

---------------------------------------------------------------------------
(* The numeric tokens of a description, each with the sign the handler *)
(* reads off the characters before it.                                 *)

\* the number of digits of raw from position i on
RECURSIVE DigitRun(_, _)
DigitRun(raw, i) ==
    IF i <= Len(raw) /\ Ch(raw, i) \in DigitChars THEN 1 + DigitRun(raw, i + 1) ELSE 0

\* the length of the match of \d*\.?\d+ starting at position i, 0 for none:
\* the digits from i on, and "." with the digits behind it if there are any
MatchLen(raw, i) ==
    LET p == DigitRun(raw, i)
        q == IF i + p <= Len(raw) /\ Ch(raw, i + p) = "."
             THEN DigitRun(raw, i + p + 1) ELSE 0
    IN  IF q > 0 THEN p + 1 + q ELSE p

\* "while j >= 0 and raw[j].isspace(): j -= 1", positions 1-based, 0 for -1
RECURSIVE SkipSpaceBack(_, _)
SkipSpaceBack(raw, j) ==
    IF j >= 1 /\ Ch(raw, j) \in Whitespace THEN SkipSpaceBack(raw, j - 1) ELSE j

\* the sign of the token starting at position start: 1 or -1
TokenSign(raw, start) ==
    LET j == SkipSpaceBack(raw, start - 1)
    IN  IF j >= 1 /\ Ch(raw, j) \in {"(", ")"}
        THEN LET k == SkipSpaceBack(raw, j - 1)
             IN  IF k >= 1 /\ Ch(raw, k) = "-" THEN -1 ELSE 1
        ELSE IF j >= 1 /\ Ch(raw, j) = "-" THEN -1 ELSE 1

\* re.finditer from position i on: sign * float(m.group()) of every match
RECURSIVE TokensFrom(_, _)
TokensFrom(raw, i) ==
    IF i > Len(raw) THEN <<>>
    ELSE LET m == MatchLen(raw, i)
         IN  IF m = 0 THEN TokensFrom(raw, i + 1)
             ELSE <<TokenSign(raw, i) * ParseFloat(SubSeq(raw, i, i + m - 1)).val>>
                  \o TokensFrom(raw, i + m)

\* nums of one description
ExtractTokens(raw) == TokensFrom(raw, 1)

\* the captions of the names of one token n: one per name, in order
NameCaptions(n, map, tol) ==
    LET name_list == get_global_name(FloatItem(n), map, tol)
    IN  [i \in 1..Len(name_list) |-> [n |-> n, nm |-> name_list[i]]]

\* The captions written under one record: for every token of its description,
\* in order, one caption per name get_global_name returns.  An empty
\* GLOBAL_NAME_MAP has no name for any token.
Captions(raw, map, tol) ==
    IF Len(map) = 0 THEN <<>>
    ELSE LET tokens == ExtractTokens(raw)
         IN  Flatten(Len(tokens), [i \in 1..Len(tokens) |->
                 NameCaptions(tokens[i], map, tol)])

---------------------------------------------------------------------------
(* Inputs. *)

RECURSIVE SeqsUpTo(_, _)
SeqsUpTo(S, n) ==
    IF n = 0 THEN {<<>>}
    ELSE LET shorter == SeqsUpTo(S, n - 1)
         IN  shorter \cup {Append(q, x) : q \in shorter, x \in S}

\* x tenths on the value grid
Tenths(x) == (x * One) \div 10

\* x thousandths on the value grid
Thousandths(x) == (x * One) \div 1000

MainValues == {Tenths(10), Tenths(20)}
SearchItems == {StrItem("+0.5"), StrItem("-1.0"), StrItem("1.0")}
TargetValues == {Tenths(0), Tenths(20)}
MzValues == {Tenths(20)}
ToleranceValues == {Tenths(0), Tenths(10)}

\* the ticked strategies: none, each one alone, the defaults, all five
FlagChoices ==
    {Flags(FALSE, FALSE, FALSE, FALSE, FALSE), Flags(TRUE, FALSE, FALSE, FALSE, FALSE),
     Flags(FALSE, TRUE, FALSE, FALSE, FALSE), Flags(FALSE, FALSE, TRUE, FALSE, FALSE),
     Flags(FALSE, FALSE, FALSE, TRUE, FALSE), Flags(FALSE, FALSE, FALSE, FALSE, TRUE),
     Flags(TRUE, TRUE, TRUE, TRUE, FALSE), Flags(TRUE, TRUE, TRUE, TRUE, TRUE)}

\* the ticked charge states (the code offers z = 1..5)
ChargeChoices == {{}, {2}, {1, 2}}

\* what the parsing loop is given in the normalizer specification
RawItems ==
    {StrItem(s) : s \in {"+2.5", "-1.0", "3.0", "abc", "+1.5", "+-5", "-+5",
                         "'+2.5'", "' -5'", "\"3.0\"", "-", ""}}
    \cup {FloatItem(Tenths(30)), FloatItem(-Tenths(10))}

---------------------------------------------------------------------------
(* Actions. *)

searchVars == <<input_mode, target_mass_direct, mz_value, selected_charges,
                tolerance, run_main_only, run_additions, run_subtractions,
                run_sub_add, run_list2_only, results, shown, warnings,
                signed_mods, captions>>
nameVars == <<GLOBAL_NAME_MAP, num, unique_matches>>

\* the widgets' defaults and what no handler has touched yet
Fresh ==
    /\ input_mode = "Mass"
    /\ target_mass_direct = 0
    /\ mz_value = 0
    /\ selected_charges = <<>>
    /\ tolerance = Tenths(1)
    /\ run_main_only = TRUE
    /\ run_additions = TRUE
    /\ run_subtractions = TRUE
    /\ run_sub_add = TRUE
    /\ run_list2_only = FALSE
    /\ results = <<>>
    /\ shown = <<>>
    /\ warnings = <<>>
    /\ signed_mods = <<>>
    /\ captions = <<>>
    /\ num = FloatItem(0)
    /\ unique_matches = <<>>
    /\ list2_add = <<>>
    /\ list2_sub = <<>>

\* Fresh, and no global name loaded
Idle ==
    /\ Fresh
    /\ GLOBAL_NAME_MAP = <<>>

Init ==
    /\ main_list \in SeqsUpTo(MainValues, MaxMain)
    /\ list2_raw \in SeqsUpTo(SearchItems, MaxMods)
    /\ Idle
    /\ pc = "script"

\* the parsing loop at the top level of the script
ParseStep ==
    /\ pc = "script"
    /\ LET lists == ParseModifiers(list2_raw)
       IN  /\ list2_add' = lists.add
           /\ list2_sub' = lists.sub
    /\ pc' = "parsed"
    /\ UNCHANGED <<main_list, list2_raw>>
    /\ UNCHANGED searchVars
    /\ UNCHANGED nameVars

\* a click on "Run Matching Search" with the widgets as the user left them
RunSearch(mode, direct, mz, charges, tol, flags) ==
    /\ pc = "parsed"
    /\ LET pairs == IF mode = "m/z" /\ Len(charges) = 0 THEN <<>>
                    ELSE TargetPairs(mode, direct, mz, charges)
           res == Search(main_list, list2_add, list2_sub, pairs, tol, flags)
           out == IF Len(res) > 0 THEN SortedByKey(res) ELSE <<>>
       IN  /\ results' = res
           /\ shown' = out
           /\ captions' = [k \in 1..Len(out) |->
                              Captions(out[k].full_desc, GLOBAL_NAME_MAP, tol)]
           /\ signed_mods' = IF flags.list2_only /\ Len(pairs) > 0
                             THEN SignedMods(main_list, list2_add, list2_sub)
                             ELSE <<>>
           /\ warnings' =
                (IF mode = "m/z" /\ Len(charges) = 0 THEN <<NoChargeWarning>> ELSE <<>>)
                \o (IF Len(res) > 0 THEN <<>> ELSE <<NoMatchWarning>>)
    /\ input_mode' = mode
    /\ target_mass_direct' = direct
    /\ mz_value' = mz
    /\ selected_charges' = charges
    /\ tolerance' = tol
    /\ run_main_only' = flags.main_only
    /\ run_additions' = flags.additions
    /\ run_subtractions' = flags.subtractions
    /\ run_sub_add' = flags.sub_add
    /\ run_list2_only' = flags.list2_only
    /\ pc' = "done"
    /\ UNCHANGED <<main_list, list2_raw, list2_add, list2_sub>>
    /\ UNCHANGED nameVars

RunMass ==
    \E direct \in TargetValues, tol \in ToleranceValues, flags \in FlagChoices :
        RunSearch("Mass", direct, 0, <<>>, tol, flags)

RunMz ==
    \E mz \in MzValues, zs \in ChargeChoices, tol \in ToleranceValues,
       flags \in FlagChoices :
        RunSearch("m/z", 0, mz, SortedSeq(zs), tol, flags)

Next == ParseStep \/ RunMass \/ RunMz

Spec == Init /\ [][Next]_vars

---------------------------------------------------------------------------
(* The search on longer modifier lists and a three-element main list, with *)
(* names loaded for the modifier values, one group of strategies at a time. *)

LongMains ==
    {<<Tenths(100), Tenths(200), Tenths(300)>>, <<Tenths(20), Tenths(30)>>}
LongItems == {StrItem("-1.0"), StrItem("-2.0"), StrItem("1.0"), StrItem("+-1")}
ComboTargets == {Tenths(10), Tenths(570)}
FragmentTargets == {Tenths(300)}
WideTolerance == Tenths(1000)

\* load_global_names: an unsigned key for every modifier magnitude
LongNames == << <<"1.0", "A">>, <<"2.0", "B">> >>

\* "-" alone, or "+", "-" and "- and +" together
ComboFlags ==
    {Flags(FALSE, FALSE, TRUE, FALSE, FALSE), Flags(FALSE, TRUE, TRUE, TRUE, FALSE)}

InitLong ==
    /\ main_list \in LongMains
    /\ list2_raw \in SeqsUpTo(LongItems, MaxLong)
    /\ Fresh
    /\ GLOBAL_NAME_MAP = LongNames
    /\ pc = "script"

\* a click with the combination strategies ticked and tolerance 0
RunCombos ==
    \E direct \in ComboTargets, flags \in ComboFlags :
        RunSearch("Mass", direct, 0, <<>>, Tenths(0), flags)

\* a click with "-" alone ticked and a tolerance no candidate misses
RunSubtractions ==
    \E direct \in ComboTargets :
        RunSearch("Mass", direct, 0, <<>>, WideTolerance,
                  Flags(FALSE, FALSE, TRUE, FALSE, FALSE))

\* a click with "Shorters-combos" alone ticked
RunFragments ==
    \E direct \in FragmentTargets :
        RunSearch("Mass", direct, 0, <<>>, Tenths(0),
                  Flags(FALSE, FALSE, FALSE, FALSE, TRUE))

NextLong == ParseStep \/ RunCombos \/ RunSubtractions \/ RunFragments

SpecLong == InitLong /\ [][NextLong]_vars

---------------------------------------------------------------------------
(* The parsing loop alone, on a wider set of items. *)

InitNorm ==
    /\ main_list = <<>>
    /\ list2_raw \in SeqsUpTo(RawItems, MaxRaw)
    /\ Idle
    /\ pc = "script"

NextNorm == ParseStep

SpecNorm == InitNorm /\ [][NextNorm]_vars

---------------------------------------------------------------------------
(* get_global_name alone. *)

NameKeys == {"-1.007", "+0.05", "1.008", " +1.0 ", "abc"}
NameValues == {"H", "+H"}
NameTolerances == {Thousandths(0), Thousandths(10), Thousandths(100)}
NameArgs ==
    {FloatItem(Thousandths(x)) : x \in {-1006, 1006, -1007, 1009, -40, 0, 1000}}
    \cup {StrItem("abc"), StrItem("1.0")}

\* the dict as a sequence of (key, name) with distinct keys
NameMaps ==
    {m \in SeqsUpTo(NameKeys \X NameValues, MaxNames) :
        \A i, j \in 1..Len(m) : i # j => m[i][1] # m[j][1]}

InitNames ==
    /\ main_list = <<>>
    /\ list2_raw = <<>>
    /\ Idle
    /\ pc = "names"

\* load_global_names and the tolerance widget, then one call
LoadNames ==
    /\ pc = "names"
    /\ GLOBAL_NAME_MAP' \in NameMaps
    /\ tolerance' \in NameTolerances
    /\ pc' = "loaded"
    /\ UNCHANGED <<main_list, list2_raw, list2_add, list2_sub, input_mode,
                   target_mass_direct, mz_value, selected_charges,
                   run_main_only, run_additions, run_subtractions, run_sub_add,
                   run_list2_only, results, shown, warnings, signed_mods, captions,
                   num, unique_matches>>

GetGlobalName ==
    /\ pc = "loaded"
    /\ \E n \in NameArgs :
        /\ num' = n
        /\ unique_matches' = get_global_name(n, GLOBAL_NAME_MAP, tolerance)
    /\ pc' = "called"
    /\ UNCHANGED <<main_list, list2_raw, list2_add, list2_sub, input_mode,
                   target_mass_direct, mz_value, selected_charges, tolerance,
                   run_main_only, run_additions, run_subtractions, run_sub_add,
                   run_list2_only, results, shown, warnings, signed_mods, captions,
                   GLOBAL_NAME_MAP>>

NextNames == LoadNames \/ GetGlobalName

SpecNames == InitNames /\ [][NextNames]_vars

---------------------------------------------------------------------------
(* Claims about the parsing loop (checked under SpecNorm). *)

\* the text the loop body looks at, and what float() makes of it
Cleaned(i) == CleanItem(list2_raw[i])
PlusValue(i) == ParseFloat(SubSeq(Cleaned(i), 2, Len(Cleaned(i))))
WholeValue(i) == ParseFloat(Cleaned(i))

IsPlus(i) == StartsWith(Cleaned(i), "+") /\ PlusValue(i).ok
IsMinus(i) == StartsWith(Cleaned(i), "-") /\ WholeValue(i).ok
IsUnsigned(i) ==
    ~StartsWith(Cleaned(i), "+") /\ ~StartsWith(Cleaned(i), "-") /\ WholeValue(i).ok

\* what the claim lets entry i add to each bucket
AddShare(i) ==
    IF IsPlus(i) THEN <<PlusValue(i).val>>
    ELSE IF IsUnsigned(i) /\ WholeValue(i).val >= 0 THEN <<WholeValue(i).val>>
    ELSE <<>>
SubShare(i) ==
    IF IsMinus(i) THEN <<Abs(WholeValue(i).val)>>
    ELSE IF IsUnsigned(i) /\ WholeValue(i).val >= 0 THEN <<WholeValue(i).val>>
    ELSE <<>>

\* entries the claim says nothing about: unsigned text with a negative value
RoutedByClaim ==
    \A i \in 1..Len(list2_raw) : IsUnsigned(i) => WholeValue(i).val >= 0

\* C2: a "+" entry gives its value to list2_add only, a "-" entry the
\* absolute value to list2_sub only, an unsigned entry with value >= 0 its
\* value to both; the buckets hold these shares in entry order, duplicates kept.
C2_Routing ==
    (pc = "parsed" /\ RoutedByClaim) =>
        /\ list2_add = Flatten(Len(list2_raw), [i \in 1..Len(list2_raw) |-> AddShare(i)])
        /\ list2_sub = Flatten(Len(list2_raw), [i \in 1..Len(list2_raw) |-> SubShare(i)])

C2_Witness ==
    /\ pc = "parsed"
    /\ list2_raw = <<StrItem("+2.5"), StrItem("-1.0"), StrItem("3.0")>>
    /\ list2_add = <<Tenths(25), Tenths(30)>>
    /\ list2_sub = <<Tenths(10), Tenths(30)>>

\* C3: every value the loop puts into list2_add or list2_sub is non-negative.
C3_NonNegative ==
    pc = "parsed" =>
        /\ \A i \in 1..Len(list2_add) : list2_add[i] >= 0
        /\ \A i \in 1..Len(list2_sub) : list2_sub[i] >= 0

\* C4: an entry float() rejects adds nothing and does not stop the loop: the
\* output is the output for the same list with the rejected entries removed.
C4_SkipsUnparseable ==
    pc = "parsed" =>
        LET kept == SelectSeq(list2_raw, LAMBDA item : ~Raises(item))
            clean == ParseModifiers(kept)
        IN  /\ list2_add = clean.add
            /\ list2_sub = clean.sub

C4_Witness ==
    /\ pc = "parsed"
    /\ list2_raw = <<StrItem("abc"), StrItem("+1.5")>>
    /\ list2_add = <<Tenths(15)>>
    /\ list2_sub = <<>>

---------------------------------------------------------------------------
(* Claims about the search (checked under Spec). *)

IsPrefixOf(p, s) == Len(p) <= Len(s) /\ SubSeq(s, 1, Len(p)) = p

WithLabel(label, desc) == IF label = "" THEN desc ELSE "[" \o label \o "] " \o desc

CurrentFlags ==
    Flags(run_main_only, run_additions, run_subtractions, run_sub_add, run_list2_only)

\* every candidate one pass of the handler evaluated, in order
Evaluated == PassCands(main_list, list2_add, list2_sub, CurrentFlags)

\* the (target, prefix) pairs the handler looped over
Targets ==
    IF input_mode = "m/z" /\ Len(selected_charges) = 0 THEN <<>>
    ELSE TargetPairs(input_mode, target_mass_direct, mz_value, selected_charges)

InTolerance(c, target) == Abs(c.val - target) <= tolerance

RecordOf(c, pair) ==
    [steps |-> c.steps, err |-> Abs(c.val - pair.target),
     full_desc |-> WithLabel(pair.prefix, c.desc), val |-> c.val]

AcceptedFor(cands, pair) ==
    LET hits == SelectSeq(cands, LAMBDA c : InTolerance(c, pair.target))
    IN  [j \in 1..Len(hits) |-> RecordOf(hits[j], pair)]

\* C1: for every target, a candidate of an enabled strategy has a record iff
\* abs(value - target) <= tolerance; the result list holds exactly those
\* records, each with err = abs(value - target) <= tolerance.
C1_AcceptedIffInTolerance ==
    pc = "done" =>
        LET cands == Evaluated
            pairs == Targets
        IN  /\ results = Flatten(Len(pairs), [p \in 1..Len(pairs) |-> AcceptedFor(cands, pairs[p])])
            /\ \A k \in 1..Len(results) : results[k].err <= tolerance

C1_Witness ==
    /\ pc = "done"
    /\ run_list2_only /\ run_additions
    /\ tolerance > 0
    /\ \E k \in 1..Len(results) : results[k].err = tolerance
    /\ \E k \in 1..Len(results) : results[k].steps = 3
    /\ \E p \in 1..Len(Targets), j \in 1..Len(Evaluated) :
          ~InTolerance(Evaluated[j], Targets[p].target)

\* the label of charge state z in a record's description
ChargeLabel(z) == "[m/z=" \o Fixed5(mz_value) \o ", z=" \o ToString(z) \o "] "

\* C7: in m/z mode every record is labelled with one selected charge z and was
\* tested against mz*z - z, and each selected z has one sub-run: as many
\* records as candidates within tolerance of mz*z - z.  In Mass mode the one
\* target is target_mass_direct and no record is labelled.
C7_ChargeSubRuns ==
    pc = "done" =>
        IF input_mode = "m/z"
        THEN /\ \A k \in 1..Len(results) :
                  \E z \in SeqRange(selected_charges) :
                      /\ IsPrefixOf(ChargeLabel(z), results[k].full_desc)
                      /\ results[k].err = Abs(results[k].val - (mz_value * z - z * One))
                      /\ results[k].err <= tolerance
             /\ LET cands == Evaluated
                IN  \A z \in SeqRange(selected_charges) :
                      Len(SelectSeq(results,
                            LAMBDA r : IsPrefixOf(ChargeLabel(z), r.full_desc)))
                      = Len(SelectSeq(cands,
                            LAMBDA c : InTolerance(c, mz_value * z - z * One)))
        ELSE /\ \A k \in 1..Len(results) :
                  /\ ~StartsWith(results[k].full_desc, "[")
                  /\ results[k].err = Abs(results[k].val - target_mass_direct)
             /\ Len(results)
                  = Len(SelectSeq(Evaluated,
                        LAMBDA c : InTolerance(c, target_mass_direct)))

C7_Witness ==
    /\ pc = "done"
    /\ input_mode = "m/z"
    /\ selected_charges = <<1, 2>>
    /\ \E k \in 1..Len(results) : IsPrefixOf(ChargeLabel(1), results[k].full_desc)
    /\ \E k \in 1..Len(results) :
          /\ IsPrefixOf(ChargeLabel(2), results[k].full_desc)
          /\ results[k].err = Abs(results[k].val - (2 * mz_value - 2 * One))
          /\ results[k].err > 0

\* C8: an invalid configuration (empty main_list, no strategy ticked, m/z mode
\* without a charge state) leaves the result list empty, and the missing charge
\* state is reported.
C8_InvalidConfigEmpty ==
    pc = "done" =>
        /\ Len(main_list) = 0 => results = <<>>
        /\ (~run_main_only /\ ~run_additions /\ ~run_subtractions /\ ~run_sub_add
              /\ ~run_list2_only) => results = <<>>
        /\ (input_mode = "m/z" /\ Len(selected_charges) = 0) =>
              (results = <<>> /\ NoChargeWarning \in SeqRange(warnings))

SameKey(a, b) == a.steps = b.steps /\ a.err = b.err

\* the labels a record's description can carry
Labels == {""} \cup {PrefixStr(mz_value, z) : z \in SeqRange(selected_charges)}

HasDesc(r, desc) == \E l \in Labels : r.full_desc = WithLabel(l, desc)

\* every record shown with description desc has step count n
StepsAre(desc, n) ==
    \A l \in Labels :
        LET full == WithLabel(l, desc)
        IN  \A k \in 1..Len(shown) : shown[k].full_desc = full => shown[k].steps = n

TuplesOver(values) ==
    UNION {[1..n -> SeqRange(values)] : n \in 1..3}

\* C9: the records are written out in ascending order of step count, then of
\* error; records with equal keys keep their production order; and the step
\* count is 0 for the main-only record, the combination size for "+" and "-"
\* combinations and 2 for a "-" and "+" pair.
C9_SortedStable ==
    pc = "done" =>
        /\ Len(shown) = Len(results)
        /\ \A i, j \in 1..Len(shown) :
              i < j => \/ shown[i].steps < shown[j].steps
                       \/ /\ shown[i].steps = shown[j].steps
                          /\ shown[i].err <= shown[j].err
        /\ \A k \in 1..Len(results) :
              SelectSeq(shown, LAMBDA r : SameKey(r, results[k]))
              = SelectSeq(results, LAMBDA r : SameKey(r, results[k]))
        /\ StepsAre(selected_name \o " only", 0)
        /\ \A c \in TuplesOver(list2_add) : StepsAre("+" \o TupleStr(c), Len(c))
        /\ \A c \in TuplesOver(list2_sub) : StepsAre("-" \o TupleStr(c), Len(c))
        /\ \A s \in SeqRange(list2_sub), a \in SeqRange(list2_add) :
              StepsAre("-(" \o FloatStr(s) \o ",) +(" \o FloatStr(a) \o ",)", 2)

C9_Witness ==
    /\ pc = "done"
    /\ shown # results
    /\ \E i, j \in 1..Len(results) :
          /\ i < j
          /\ SameKey(results[i], results[j])
          /\ results[i].full_desc # results[j].full_desc
          /\ results[i].err > 0
    /\ \E i, j \in 1..Len(shown) :
          shown[i].steps = shown[j].steps /\ shown[i].err < shown[j].err
    /\ \E k \in 1..Len(shown) : HasDesc(shown[k], selected_name \o " only")
    /\ \E k \in 1..Len(shown), s \in SeqRange(list2_sub), a \in SeqRange(list2_add) :
          HasDesc(shown[k], "-(" \o FloatStr(s) \o ",) +(" \o FloatStr(a) \o ",)")

SelfPairDesc(x) == "-(" \o FloatStr(x) \o ",) +(" \o FloatStr(x) \o ",)"

\* C10: no record describes a "- and +" pair whose two values are equal, also
\* when the pair's value, which is the main sum, is within tolerance.
C10_NoSelfPair ==
    pc = "done" =>
        \A x \in SeqRange(list2_sub) \cap SeqRange(list2_add) :
            \A k \in 1..Len(results) : ~HasDesc(results[k], SelfPairDesc(x))

C10_Witness ==
    /\ pc = "done"
    /\ run_sub_add
    /\ \E i \in 1..Len(list2_raw) : IsUnsigned(i)
    /\ \E x \in SeqRange(list2_sub) \cap SeqRange(list2_add), p \in 1..Len(Targets) :
          Abs((Sum(main_list) - x + x) - Targets[p].target) <= tolerance
    /\ \E k \in 1..Len(results), s \in SeqRange(list2_sub), a \in SeqRange(list2_add) :
          /\ s # a
          /\ HasDesc(results[k], "-(" \o FloatStr(s) \o ",) +(" \o FloatStr(a) \o ",)")

---------------------------------------------------------------------------
(* Claims about the strategies on longer lists (checked under SpecLong). *)

\* the sets of 1, 2 or 3 distinct positions of list2_sub
PositionSets ==
    {S \in SUBSET (1..Len(list2_sub)) : Cardinality(S) \in 1..3}

\* the values at the positions of S, in position order
ComboAt(S) ==
    LET pos == SortedSeq(S)
    IN  [k \in 1..Len(pos) |-> list2_sub[pos[k]]]

ComboDesc(S) == "-" \o TupleStr(ComboAt(S))
ComboValue(S) == Sum(main_list) - Sum(ComboAt(S))

\* a record of the "-" branch: "-(...)" without a "+(...)" behind it
IsSubtractionRecord(r) ==
    \E l \in Labels :
        /\ IsPrefixOf(WithLabel(l, "-("), r.full_desc)
        /\ \A i \in 1..Len(r.full_desc) : Ch(r.full_desc, i) # "+"

Binomial(n, k) ==
    IF k = 1 THEN n
    ELSE IF k = 2 THEN (n * (n - 1)) \div 2
    ELSE (n * (n - 1) * (n - 2)) \div 6

\* C11: per target, the "-" branch has one candidate for every set of 1, 2 or
\* 3 distinct positions of list2_sub, described by the values at these
\* positions and valued total - sum: a record is a candidate within tolerance,
\* equal values at different positions give separate records, no position is
\* used twice, and when no candidate is out of tolerance the records number
\* C(n,1) + C(n,2) + C(n,3).
C11_SubtractionCombos ==
    (pc = "done" /\ run_subtractions) =>
        LET pairs == Targets
            subrecs == SelectSeq(results, IsSubtractionRecord)
            n == Len(list2_sub)
        IN  /\ \A p \in 1..Len(pairs), S \in PositionSets :
                  Len(SelectSeq(subrecs, LAMBDA r :
                        /\ r.full_desc = WithLabel(pairs[p].prefix, ComboDesc(S))
                        /\ r.val = ComboValue(S)
                        /\ r.steps = Cardinality(S)))
                  = IF Abs(ComboValue(S) - pairs[p].target) <= tolerance
                    THEN Cardinality({T \in PositionSets :
                            ComboAt(T) = ComboAt(S)})
                    ELSE 0
            /\ \A k \in 1..Len(subrecs) :
                  \E p \in 1..Len(pairs), S \in PositionSets :
                      /\ subrecs[k].full_desc = WithLabel(pairs[p].prefix, ComboDesc(S))
                      /\ subrecs[k].val = ComboValue(S)
            /\ (\A p \in 1..Len(pairs), S \in PositionSets :
                    Abs(ComboValue(S) - pairs[p].target) <= tolerance) =>
                  Len(subrecs)
                  = Len(pairs) * (Binomial(n, 1) + Binomial(n, 2) + Binomial(n, 3))

C11_Witness ==
    /\ pc = "done"
    /\ run_subtractions /\ ~run_additions
    /\ Len(list2_sub) = 3
    /\ list2_sub[1] = list2_sub[2] /\ list2_sub[1] # list2_sub[3]
    /\ Len(results) = 7
    /\ \E i, j \in 1..Len(results) :
          i < j /\ results[i].full_desc = results[j].full_desc
    /\ \E k \in 1..Len(results) : results[k].steps = 3

\* the description of the fragment-only candidate labelled "a-b"
FragmentDesc(a, b) == "frag " \o ToString(a) \o "-" \o ToString(b)

\* the sum of the elements of main_list at 1-based positions a..b
SumOfPositions(a, b) == Sum(SubSeq(main_list, a, b))

LabelNumbers == 1..(Len(main_list) + 1)

\* C12 as stated: the record "frag a-b" has the value of the elements at
\* 1-based positions a .. b-1 (the end of the label is exclusive).
C12_LabelEndExclusive ==
    (pc = "done" /\ run_list2_only) =>
        \A k \in 1..Len(results), a \in LabelNumbers, b \in LabelNumbers :
            HasDesc(results[k], FragmentDesc(a, b)) =>
                results[k].val = SumOfPositions(a, b - 1)

\* C12 amended: the record "frag a-b" has 1 <= a <= b <= n and the value of
\* the elements at 1-based positions a .. b (both ends inclusive), and every
\* such fragment whose sum is within tolerance of a target has its record.
C12_LabelEndInclusive ==
    (pc = "done" /\ run_list2_only) =>
        /\ \A k \in 1..Len(results), a \in LabelNumbers, b \in LabelNumbers :
              HasDesc(results[k], FragmentDesc(a, b)) =>
                  /\ a <= b /\ b <= Len(main_list)
                  /\ results[k].val = SumOfPositions(a, b)
                  /\ results[k].steps = 0
        /\ \A p \in 1..Len(Targets), a \in 1..Len(main_list), b \in 1..Len(main_list) :
              (a <= b /\ Abs(SumOfPositions(a, b) - Targets[p].target) <= tolerance) =>
                  \E k \in 1..Len(results) :
                      results[k].full_desc
                          = WithLabel(Targets[p].prefix, FragmentDesc(a, b))

C12_Witness ==
    /\ pc = "done"
    /\ run_list2_only
    /\ main_list = <<Tenths(100), Tenths(200), Tenths(300)>>
    /\ \E k \in 1..Len(results) :
          /\ results[k].full_desc = FragmentDesc(1, 2)
          /\ results[k].val = Tenths(300)
    /\ \E k \in 1..Len(results) :
          /\ results[k].full_desc = FragmentDesc(3, 3)
          /\ results[k].val = Tenths(300)

\* the tokens of the captions under the k-th record written out
CaptionTokens(k) == [i \in 1..Len(captions[k]) |-> captions[k][i].n]

Negated(c) == [i \in 1..Len(c) |-> -c[i]]

\* C13: the tokens read off a "+" combination are its values, those read off
\* a "-" combination are its values negated, and those of a "- and +" pair
\* are the subtracted value negated and the added value.  The tokens are
\* seen in the captions: with tolerance 0 and the names of LongNames every
\* modifier token has exactly one caption.
C13_TokenSigns ==
    (pc = "done" /\ tolerance = 0 /\ GLOBAL_NAME_MAP = LongNames) =>
        \A k \in 1..Len(shown) :
            /\ \A c \in TuplesOver(list2_add) :
                  HasDesc(shown[k], "+" \o TupleStr(c)) => CaptionTokens(k) = c
            /\ \A c \in TuplesOver(list2_sub) :
                  HasDesc(shown[k], "-" \o TupleStr(c)) =>
                      CaptionTokens(k) = Negated(c)
            /\ \A s \in SeqRange(list2_sub), a \in SeqRange(list2_add) :
                  HasDesc(shown[k], "-(" \o FloatStr(s) \o ",) +(" \o FloatStr(a) \o ",)")
                      => CaptionTokens(k) = <<-s, a>>

\* the magnitude of v as the keys and the exclusion compare it
Magnitude(v) == Round6(Abs(v))

\* whether the magnitude of v is that of a value of main_list
IsMainMass(v) == \E i \in 1..Len(main_list) : Round6(main_list[i]) = Magnitude(v)

\* The entries of one bucket that are kept: not excluded, and no earlier
\* entry of the bucket has the same magnitude.
IsKept(values, i) ==
    /\ ~IsMainMass(values[i])
    /\ \A j \in 1..(i - 1) : Magnitude(values[j]) # Magnitude(values[i])

KeptOf(values) ==
    LET idx == SortedSeq({i \in 1..Len(values) : IsKept(values, i)})
    IN  [k \in 1..Len(idx) |-> values[idx[k]]]

Occurrences(x) == Cardinality({i \in 1..Len(signed_mods) : signed_mods[i] = x})

SignOf(x) == IF x < 0 THEN "-" ELSE "+"

\* C14: signed_mods holds +v for every addition value and -v for every
\* subtraction value whose magnitude is no main_list value, and nothing
\* else; no two of its entries have the same sign and magnitude; it lists the
\* additions, then the subtractions, each in the order of the first
\* occurrences; and a value of both buckets that is not excluded is there
\* once as +v and once as -v.
C14_SignedMods ==
    (pc = "done" /\ run_list2_only /\ Len(Targets) > 0) =>
        /\ \A v \in SeqRange(list2_add) : ~IsMainMass(v) => Occurrences(v) >= 1
        /\ \A v \in SeqRange(list2_sub) : ~IsMainMass(v) => Occurrences(-v) >= 1
        /\ \A i \in 1..Len(signed_mods) :
              /\ ~IsMainMass(signed_mods[i])
              /\ \/ signed_mods[i] \in SeqRange(list2_add)
                 \/ -signed_mods[i] \in SeqRange(list2_sub)
        /\ \A i, j \in 1..Len(signed_mods) :
              i # j => \/ SignOf(signed_mods[i]) # SignOf(signed_mods[j])
                       \/ Magnitude(signed_mods[i]) # Magnitude(signed_mods[j])
        /\ signed_mods = KeptOf(list2_add) \o Negated(KeptOf(list2_sub))
        /\ \A v \in SeqRange(list2_add) \cap SeqRange(list2_sub) :
              ~IsMainMass(v) => (Occurrences(v) = 1 /\ Occurrences(-v) = 1)

---------------------------------------------------------------------------
(* Claims about get_global_name (checked under SpecNames). *)

KeyText(i) == Strip(GLOBAL_NAME_MAP[i][1], Whitespace)
KeyName(i) == GLOBAL_NAME_MAP[i][2]
KeyValue(i) == ParseFloat(KeyText(i))
NumValue == ToFloat(num)

\* C5: a name returned for a signed key goes with a value of the key's sign
\* (stated for a map of one entry, so that the name is that key's).
C5_SignedKeySameSign ==
    (pc = "called" /\ Len(GLOBAL_NAME_MAP) = 1 /\ NumValue.ok /\ KeyValue(1).ok
       /\ tolerance >= 0 /\ KeyName(1) \in SeqRange(unique_matches)) =>
        /\ StartsWith(KeyText(1), "+") => NumValue.val >= 0
        /\ StartsWith(KeyText(1), "-") => NumValue.val <= 0

\* the string entry i yields for the value, by the claim's rule (<<>>: none)
Yield(i) ==
    IF ~KeyValue(i).ok THEN <<>>
    ELSE IF StartsWith(KeyText(i), "+") \/ StartsWith(KeyText(i), "-")
    THEN IF Abs(KeyValue(i).val - NumValue.val) <= tolerance
         THEN <<KeyName(i)>> ELSE <<>>
    ELSE IF Abs(Abs(KeyValue(i).val) - Abs(NumValue.val)) <= tolerance
         THEN <<(IF NumValue.val >= 0 THEN "+" ELSE "-") \o KeyName(i)>>
         ELSE <<>>

\* the first entry yielding string m
FirstYield(m) ==
    CHOOSE i \in 1..Len(GLOBAL_NAME_MAP) :
        /\ Yield(i) = <<m>>
        /\ \A j \in 1..(i - 1) : Yield(j) # <<m>>

====
